---- MODULE Spec2Model ----
(***************************************************************************)
(* A model of thoth-adviser's predictors (TemporalDifference, MCTS) and of *)
(* the subprocess wrapper (subprocess_run).                                *)
(*                                                                         *)
(* Floats are modelled by exact numbers: rewards and scores are small      *)
(* integers (sums of small integers are exact in IEEE doubles), NaN and    *)
(* +-Inf are tagged values, the temperature is a reduced fraction.         *)
(***************************************************************************)
EXTENDS Integers, Sequences, FiniteSets, TLC

VARIABLES
    \* --- predictor (td.py, mcts.py) ---
    predictor,            \* "TD" | "MCTS": the class of the predictor object
    policySize,           \* _TD_POLICY_SIZE / _MCTS_POLICY_SIZE of the predictor's module
    keep_history,         \* Predictor.keep_history
    policy,               \* self._policy: dict, as the sequence of its items in insertion order
    a2,                   \* 2 * self._a (self._a is a multiple of 0.5)
    temperature,          \* self._temperature, a reduced fraction [n, d]
    temperature_history,  \* self._temperature_history
    next_state,           \* MCTS._next_state (None for TD, which has no such slot)
    \* --- context, owned by the resolver ---
    iteration,            \* context.iteration
    limit,                \* context.limit
    accepted,             \* context.accepted_final_states_count
    beam,                 \* context.beam, in heap array order
    \* --- observation of the last call ---
    call,                 \* the last predictor call: its arguments and its result
    updated,              \* the policy store of the last set_reward_signal after its update loop, before eviction
    expanding,            \* the resolver is expanding the state that this iteration's run() returned
    seen_accepted,        \* a call of _temperature_function has seen accepted_final_states_count > 0
    \* --- subprocess_run (run.py) ---
    plot_history,         \* the plot_history argument: "None" or a path
    child,                \* the child process: [pc, report, result_dict]
    parent,               \* the parent process: [pc, exit_code, result_dict]
    wait_status,          \* what os.waitpid will return for the child, "running" until it ends
    kill_file,            \* os.path.isfile(_LIVENESS_PROBE_KILL_FILE)
    printed,              \* the calls of print_func, in order: [by, result_dict]
    \* --- Adviser (python/advise.py) ---
    adviser,              \* the Adviser object and its compute() call
    \* --- pipeline steps (python/pipeline/steps) ---
    step_context,         \* StepContext: [paths, direct_dependencies]
    step,                 \* the step unit: its parameters, its state and what it was run on
    \* --- resolver loop ---
    resolver,             \* the loop around the predictor: [pc, count, deadline_hit, ...]
    \* --- two runs of the engine, side by side ---
    twin,                 \* [pc, prng_seed, copies]: the two runs and what they were started with
    \* --- boots ---
    boot                  \* the boot unit and its context: [pc, packages, dev_packages, stack_info, ...]

predictorVars == <<predictor, policySize, keep_history, policy, a2, temperature,
                   temperature_history, next_state, iteration, limit, accepted,
                   beam, call, updated, expanding, seen_accepted>>

subprocessVars == <<plot_history, child, parent, wait_status, kill_file, printed>>

\* The components a specification of the predictors or of subprocess_run
\* leaves idle.
otherVars == <<adviser, step_context, step, resolver, twin, boot>>

vars == <<predictorVars, subprocessVars, otherVars>>

(***************************************************************************)
(* Bounds of the model.                                                    *)
(***************************************************************************)
MaxCount == 2        \* visits recorded per policy record
MaxBeam == 2         \* states in the beam
MaxHistory == 1      \* entries of temperature_history
MaxAccepted == 2     \* context.accepted_final_states_count
MaxPolicySize == 2   \* the largest policy cap tried
MaxStacks == 3       \* stacks a dependency graph walk produces
MaxCalls == 2        \* calls of Adviser.compute on one Adviser object
MaxPaths == 4        \* dependency paths in a step context
MaxLimit == 3        \* context.limit under the resolver loop
MaxCandidates == 2   \* candidate versions of one expansion
MaxDraw == 3         \* the largest value the pseudo-random generator draws
MaxStackInfo == 2    \* entries of context.stack_info before the boots run
Periods == 1         \* eviction periods the iteration counter runs through

EVICTION_PERIOD == 1024

(***************************************************************************)
(* Python values.                                                          *)
(***************************************************************************)
None == [none |-> TRUE]

\* A dict key: a str and a tuple are never equal in Python, whatever they hold.
PyStr(s) == [t |-> "str", v |-> <<s>>]
PyTuple(tup) == [t |-> "tuple", v |-> tup]

\* Rewards: float("nan"), +-float("inf"), or a finite number.
NaN == [kind |-> "nan", val |-> 0]
Inf == [kind |-> "inf", val |-> 1]
NegInf == [kind |-> "inf", val |-> -1]
Finite(x) == [kind |-> "fin", val |-> x]
FiniteRewards == {Finite(0), Finite(1)}
Rewards == {NaN, Inf, NegInf} \cup FiniteRewards

isnan(r) == r.kind = "nan"
isinf(r) == r.kind = "inf"

(***************************************************************************)
(* Package tuples and resolver states.                                     *)
(***************************************************************************)
A1 == <<"a", "1.0.0", "https://pypi.org/simple">>
B1 == <<"b", "1.0.0", "https://pypi.org/simple">>
C1 == <<"c", "1.0.0", "https://pypi.org/simple">>

PackageTuples == {A1, B1, C1}

MkState(score, resolved, unresolved) ==
    [score |-> score, resolved |-> resolved, unresolved |-> unresolved]

\* States still to be expanded (at least one unresolved dependency).
InitialState == MkState(0, <<>>, <<A1, B1>>)

OpenStates ==
    { InitialState,
      MkState(1, <<A1>>, <<B1, C1>>),
      MkState(0, <<B1, A1>>, <<C1>>),
      MkState(1, <<C1>>, <<A1>>) }

\* Terminal states (no unresolved dependency).
FinalStates ==
    { MkState(2, <<A1, B1, C1>>, <<>>),
      MkState(1, <<C1, A1>>, <<>>),
      MkState(2, <<B1>>, <<>>) }

States == OpenStates \cup FinalStates

iter_resolved_dependencies(state) == state.resolved
iter_unresolved_dependencies(state) == state.unresolved

Range(s) == {s[i] : i \in 1..Len(s)}

\* The package tuples get_random_unresolved_dependency may return: any
\* unresolved one (prefer_recent only skews the distribution).
get_random_unresolved_dependency(state) == Range(state.unresolved)

(***************************************************************************)
(* The beam: heap array order, the maximum at index 0.                     *)
(***************************************************************************)
IsHeap(b) ==
    /\ \A i \in 1..Len(b) : b[1].score >= b[i].score
    /\ \A i, j \in 1..Len(b) : i # j => b[i] # b[j]

SeqsUpTo(S, n) == UNION {[1..k -> S] : k \in 1..n}

Beams == {b \in SeqsUpTo(OpenStates, MaxBeam) : IsHeap(b)}

BeamMax(b) == b[1]
\* Python index i is TLA+ index i + 1.
BeamGet(b, i) == b[i + 1]
BeamGetRandomAt(b, i) == b[i + 1]
BeamSize(b) == Len(b)

(***************************************************************************)
(* The policy store: a dict package tuple -> [reward_sum, visit_count],    *)
(* kept as the sequence of its items in insertion order.                   *)
(***************************************************************************)
Item(key, rec) == [key |-> key, rec |-> rec]

Keys(pol) == {pol[i].key : i \in 1..Len(pol)}

IndexOf(pol, k) == CHOOSE i \in 1..Len(pol) : PyTuple(pol[i].key) = k

DictHas(pol, k) == \E i \in 1..Len(pol) : PyTuple(pol[i].key) = k

\* dict.get(k, default): the value stored under a key equal to k, else default.
PyList(rec) == [t |-> "list", v |-> rec]
EmptyDict == [t |-> "dict", v |-> <<>>]

DictGet(pol, k, default) ==
    IF DictHas(pol, k) THEN PyList(pol[IndexOf(pol, k)].rec) ELSE default

\* record = self._policy.setdefault(package_tuple, [0.0, 0])
SetDefault(pol, pt) ==
    IF DictHas(pol, PyTuple(pt)) THEN pol ELSE Append(pol, Item(pt, <<0, 0>>))

\* record[0] += amount; record[1] += 1
AddToRecord(pol, pt, amount) ==
    LET i == IndexOf(pol, PyTuple(pt))
    IN  [pol EXCEPT ![i].rec = <<@[1] + amount, @[2] + 1>>]

\* The update loop over state.iter_resolved_dependencies().
RECURSIVE UpdatePolicy(_, _, _)
UpdatePolicy(pol, resolved, amount) ==
    IF resolved = <<>> THEN pol
    ELSE UpdatePolicy(AddToRecord(SetDefault(pol, Head(resolved)), Head(resolved), amount),
                      Tail(resolved), amount)

\* Python's order on the lists [reward_sum, visit_count]: lexicographic.
RecLessBySum(r, s) == r[1] < s[1]
RecLess(r, s) == r[1] < s[1] \/ (r[1] = s[1] /\ r[2] < s[2])

\* One step of sorted(..., reverse=True): the sort is stable, so an item goes
\* after every item already placed whose key is not smaller than its own.
RECURSIVE InsertDesc(_, _)
InsertDesc(sorted, item) ==
    IF sorted = <<>> THEN <<item>>
    ELSE IF RecLess(Head(sorted).rec, item.rec)
         THEN <<item>> \o sorted
         ELSE <<Head(sorted)>> \o InsertDesc(Tail(sorted), item)

RECURSIVE SortedDesc(_, _)
SortedDesc(items, acc) ==
    IF items = <<>> THEN acc
    ELSE SortedDesc(Tail(items), InsertDesc(acc, Head(items)))

ShrinkOneMore(pol, size) ==
    LET s == SortedDesc(pol, <<>>)
    IN  SubSeq(s, 1, IF size + 1 < Len(s) THEN size + 1 ELSE Len(s))

\* dict(sorted(self._policy.items(), key=operator.itemgetter(1), reverse=True)[:size])
Shrink(pol, size) ==
    LET s == SortedDesc(pol, <<>>)
    IN  SubSeq(s, 1, IF size < Len(s) THEN size ELSE Len(s))

ShrinkDueOneLate(size, iter) == size # 0 /\ iter % EVICTION_PERIOD = 1

\* if _POLICY_SIZE and self.context.iteration % 1024 == 0
ShrinkDue(size, iter) == size # 0 /\ iter % EVICTION_PERIOD = 0

MaybeShrink(pol, size, iter) ==
    IF ShrinkDue(size, iter) THEN Shrink(pol, size) ELSE pol

\* The model caps the visit counts: a call is modelled while no record it
\* touches has reached MaxCount.
WithinCount(pol, resolved) ==
    \A i \in 1..Len(pol) : pol[i].key \in Range(resolved) => pol[i].rec[2] < MaxCount

(***************************************************************************)
(* Fractions, for the temperature.                                         *)
(***************************************************************************)
RECURSIVE Gcd(_, _)
Gcd(x, y) == IF y = 0 THEN x ELSE Gcd(y, x % y)

Abs(x) == IF x < 0 THEN -x ELSE x

\* n / d with d > 0, reduced.
Frac(n, d) ==
    LET g == Gcd(Abs(n), d)
    IN  [n |-> n \div g, d |-> d \div g]

Zero == Frac(0, 1)
\* The result of a float division by zero: ZeroDivisionError.
ZeroDivision == [n |-> 0, d |-> 0]

FracLess(x, y) == x.n * y.d < y.n * x.d

\* max(temperature, 0.0): the first argument unless the second is greater.
FracMaxNoClamp(x, y) == x
FracMax(x, y) == IF FracLess(x, y) THEN y ELSE x

(***************************************************************************)
(* TemporalDifference._temperature_function(t0, context): the new          *)
(* temperature and the new 2 * self._a.                                    *)
(***************************************************************************)
\* self._a = 0.5 * iteration / accepted_final_states_count * limit, twice
\* that value: the model keeps 2a, an integer (the count is 1 here).
TwiceSlopeLate(iter, accepted_count, lim) == (iter - 2) * lim
TwiceSlope(iter, accepted_count, lim) == (iter * lim) \div accepted_count

TemperatureFunction(t0, a2now, accepted_count, iter, lim) ==
    IF accepted_count = 0
    THEN [t |-> Zero, a2 |-> a2now]
    ELSE IF t0 = Zero /\ accepted_count = 1
    THEN \* self._a = 0.5 * iteration / accepted_final_states_count * limit
         [t |-> Frac(lim, 1), a2 |-> TwiceSlope(iter, accepted_count, lim)]
    ELSE IF a2now = 0
    THEN [t |-> ZeroDivision, a2 |-> a2now]
    ELSE \* (-limit / a) * iteration + limit, then max(temperature, 0.0):
         \* limit * (2a - 2 * iteration) / 2a, limit and 2a reduced first
         LET g == Gcd(lim, a2now)
             n == (lim \div g) * (a2now - 2 * iter)
         IN  [t |-> FracMax(Frac(n, a2now \div g), Zero), a2 |-> a2now]

(***************************************************************************)
(* AdaptiveSimulatedAnnealing._compute_acceptance_probability: 1.0 when    *)
(* the probable state scores at least the top one, else                    *)
(* exp((probable - top) / temperature), 0 at temperature 0.  Only its      *)
(* class matters to the comparison with random.random().                   *)
(***************************************************************************)
AcceptanceProbability(top_score, probable_score, t) ==
    IF probable_score >= top_score THEN "one"
    ELSE IF t = Zero THEN "zero"
    ELSE "fraction"

\* acceptance_probability >= random.random(), random.random() in [0.0, 1.0):
\* certain for 1.0, and either way below it (the draw may be 0.0).
AcceptanceOutcomes(p) == IF p = "one" THEN {TRUE} ELSE BOOLEAN

(***************************************************************************)
(* TemporalDifference._do_exploitation and _do_exploration.                *)
(***************************************************************************)
AttributeError == [raised |-> "AttributeError"]

\* reward_records = self._policy.get(package_tuple[0], {}).get(package_tuple)
\* The outer get looks the package NAME up; what it returns is then asked
\* for the tuple: the empty default dict answers None, a record (a list)
\* has no get.
RewardRecords(pol, package_tuple) ==
    LET outer == DictGet(pol, PyStr(package_tuple[1]), EmptyDict)
    IN  IF outer.t = "dict" THEN None ELSE AttributeError

\* to_resolve_average < average, both reward_sum / visit_count, counts > 0
AverageLess(r, s) == r[1] * s[2] < s[1] * r[2]

\* The loop over state.iter_unresolved_dependencies(); best is None or the
\* [pt, rec] kept in to_resolve_package_tuple / to_resolve_average.
RECURSIVE ExploitationScan(_, _, _)
ExploitationScan(pol, deps, best) ==
    IF deps = <<>> THEN best
    ELSE LET package_tuple == Head(deps)
             reward_records == RewardRecords(pol, package_tuple)
         IN  IF reward_records = AttributeError THEN AttributeError
             ELSE IF reward_records = None
             THEN ExploitationScan(pol, Tail(deps), best)
             ELSE IF best = None \/ AverageLess(best.rec, reward_records.v)
             THEN ExploitationScan(pol, Tail(deps),
                                   [pt |-> package_tuple, rec |-> reward_records.v])
             ELSE ExploitationScan(pol, Tail(deps), best)

\* self._policy after self._policy.get(package_tuple[0], {}): get stores
\* nothing, not even the default it returns.
PolicyAfterSetdefault(pol, name) ==
    IF \E i \in 1..Len(pol) : pol[i].key = <<name>> THEN pol
    ELSE Append(pol, Item(<<name>>, <<>>))
PolicyAfterGet(pol, name) == pol

\* self._policy after the loop of _do_exploitation.
RECURSIVE PolicyAfterScan(_, _)
PolicyAfterScan(pol, deps) ==
    IF deps = <<>> THEN pol
    ELSE PolicyAfterScan(PolicyAfterGet(pol, Head(deps)[1]), Tail(deps))

\* The (state, package tuple) pairs _do_exploitation may return.
DoExploitation(b, pol) ==
    LET state == BeamMax(b)
        best == ExploitationScan(pol, iter_unresolved_dependencies(state), None)
    IN  IF best = AttributeError THEN {}
        ELSE IF best # None THEN {<<state, best.pt>>}
        ELSE {<<state, pt>> : pt \in get_random_unresolved_dependency(state)}

\* The (state, package tuple) pairs _do_exploration may return:
\* beam.get_random(), then a random unresolved dependency of it.
DoExploration(b) ==
    UNION {{<<b[i], pt>> : pt \in get_random_unresolved_dependency(b[i])} : i \in 1..Len(b)}

\* random.randrange(1, beam.size) if beam.size > 1 else 0
ProbableStateIdxFromZero(b) == 0..(BeamSize(b) - 1)
ProbableStateIdx(b) == IF BeamSize(b) > 1 THEN 1..(BeamSize(b) - 1) ELSE {0}

(***************************************************************************)
(* The record of the last call.                                            *)
(***************************************************************************)
NoCall(op) ==
    [op |-> op, state |-> None, pt |-> <<>>, reward |-> NaN, branch |-> "",
     idx |-> 0]

RunCall(state, pt, branch, idx) ==
    [op |-> "run", state |-> state, pt |-> pt, reward |-> NaN, branch |-> branch,
     idx |-> idx]

RewardCall(state, reward, branch) ==
    [op |-> "set_reward_signal", state |-> state, pt |-> <<>>, reward |-> reward,
     branch |-> branch, idx |-> 0]

(***************************************************************************)
(* Initial state: the predictor object as constructed, the context as the  *)
(* resolver sets it up (the beam holds the initial state).                 *)
(***************************************************************************)
LastIteration == EVICTION_PERIOD * Periods + 1

\* The iteration numbers the model visits: the first ones, and the ones
\* around each multiple of the eviction period.  The predictors read
\* context.iteration only in iteration % 1024 and in the temperature.
IterationValues ==
    {0, 1} \cup {EVICTION_PERIOD * k + d : k \in 1..Periods, d \in {-1, 0, 1}}

NextIteration(i) ==
    CHOOSE j \in IterationValues : j > i /\ \A k \in IterationValues : k > i => j <= k

Limits == {LastIteration}

PredictorInit ==
    /\ predictor \in {"TD", "MCTS"}
    /\ policySize \in 0..MaxPolicySize
    /\ keep_history \in BOOLEAN
    /\ policy = <<>>
    /\ a2 = 2
    /\ temperature = Zero
    /\ temperature_history = <<>>
    /\ next_state = None
    /\ iteration = 0
    /\ limit \in Limits
    /\ accepted = 0
    /\ beam = <<InitialState>>
    /\ call = NoCall("init")
    /\ updated = <<>>
    /\ expanding = FALSE
    /\ seen_accepted = FALSE

Started == call.op # "init"

contextVars == <<iteration, limit, accepted, beam>>
\* What no predictor call changes: its configuration, and the subprocess
\* wrapper, which runs around the whole computation.
configVars == <<predictor, policySize, keep_history, subprocessVars, otherVars>>

(***************************************************************************)
(* pre_run: MCTS resets _next_state, then the inherited pre_run sets the   *)
(* temperature to context.limit and empties the history.                   *)
(***************************************************************************)
PreRun ==
    /\ ~Started
    /\ next_state' = None
    /\ temperature' = Frac(limit, 1)
    /\ temperature_history' = <<>>
    /\ call' = NoCall("pre_run")
    /\ updated' = policy
    /\ UNCHANGED <<configVars, seen_accepted, expanding, contextVars, policy, a2>>

(***************************************************************************)
(* The resolver's side: the iteration counter, the count of accepted final *)
(* states and the beam change between the predictor's calls.               *)
(***************************************************************************)
\* context.iteration += 1 at the top of the loop: every iteration calls
\* run() before the next one starts.
Advance ==
    /\ Started
    /\ iteration = 0 \/ expanding
    /\ iteration < limit
    /\ iteration < LastIteration
    /\ iteration' = NextIteration(iteration)
    /\ expanding' = FALSE
    /\ call' = NoCall("env")
    /\ updated' = policy
    /\ UNCHANGED <<configVars, seen_accepted, policy, a2, temperature, temperature_history,
                   next_state, limit, accepted, beam>>

\* Final states are accepted while the state that run() returned is
\* expanded: after the iteration's run(), several of them in one iteration
\* when several candidates complete a stack.
Accept ==
    /\ Started
    /\ expanding
    /\ \E k \in 1..MaxAccepted :
         /\ accepted + k <= MaxAccepted
         /\ accepted' = accepted + k
    /\ call' = NoCall("env")
    /\ updated' = policy
    /\ UNCHANGED <<configVars, seen_accepted, expanding, policy, a2, temperature,
                   temperature_history, next_state, iteration, limit, beam>>

BeamChange ==
    /\ Started
    /\ expanding
    /\ \E b \in Beams : b # beam /\ beam' = b
    /\ call' = NoCall("env")
    /\ updated' = policy
    /\ UNCHANGED <<configVars, seen_accepted, expanding, policy, a2, temperature,
                   temperature_history, next_state, iteration, limit, accepted>>

(***************************************************************************)
(* run(): TemporalDifference.run and MCTS.run after its next_state test.   *)
(* They differ in beam.get(idx) against beam.get_random(idx).              *)
(***************************************************************************)
ProbableState(b, idx) ==
    IF predictor = "TD" THEN BeamGet(b, idx) ELSE BeamGetRandomAt(b, idx)

HistoryEntry(t, picked_max, p) ==
    [temperature |-> t, picked_max |-> picked_max, acceptance_probability |-> p,
     accepted |-> accepted]

AnnealingRun ==
    LET tf == TemperatureFunction(temperature, a2, accepted, iteration, limit)
        top == BeamMax(beam)
    IN  /\ tf.t # ZeroDivision
        /\ \E idx \in ProbableStateIdx(beam) :
             LET probable_state == ProbableState(beam, idx)
                 p == AcceptanceProbability(top.score, probable_state.score, tf.t)
             IN  \E accept \in AcceptanceOutcomes(p) :
                   LET explore == idx # 0 /\ accept
                   IN  \E res \in (IF explore THEN DoExploration(beam)
                                   ELSE DoExploitation(beam, policy)) :
                         /\ temperature' = tf.t
                         /\ a2' = tf.a2
                         /\ policy' =
                              IF explore THEN policy
                              ELSE PolicyAfterScan(policy,
                                                   iter_unresolved_dependencies(top))
                         /\ temperature_history' =
                              IF keep_history
                              THEN Append(temperature_history,
                                          HistoryEntry(tf.t, res[1] = BeamMax(beam), p))
                              ELSE temperature_history
                         /\ call' = RunCall(res[1], res[2],
                                            IF explore THEN "exploration" ELSE "exploitation",
                                            idx)
        /\ seen_accepted' = (seen_accepted \/ accepted > 0)
        /\ updated' = policy
        /\ UNCHANGED <<configVars, contextVars, next_state>>

\* TemporalDifference.run
TDRun ==
    /\ Started
    /\ predictor = "TD"
    /\ iteration >= 1
    /\ ~expanding
    /\ expanding' = TRUE
    /\ keep_history => Len(temperature_history) < MaxHistory
    /\ AnnealingRun

\* if self._next_state is not None
NeverContinues(ns) == FALSE
ContinuesTrajectory(ns) == ns # None

\* MCTS.run
MCTSRun ==
    /\ Started
    /\ predictor = "MCTS"
    /\ iteration >= 1
    /\ ~expanding
    /\ expanding' = TRUE
    /\ IF ContinuesTrajectory(next_state)
       THEN /\ \E pt \in get_random_unresolved_dependency(next_state) :
                 call' = RunCall(next_state, pt, "next_state", 0)
            /\ updated' = policy
            /\ UNCHANGED <<configVars, seen_accepted, contextVars, policy, next_state, a2,
                           temperature, temperature_history>>
       ELSE /\ keep_history => Len(temperature_history) < MaxHistory
            /\ AnnealingRun

(***************************************************************************)
(* set_reward_signal(state, _, reward).  The resolver passes a state with  *)
(* unresolved dependencies with a finite or NaN reward and a terminal      *)
(* state with an infinite one.                                             *)
(***************************************************************************)
RewardStates(reward) == IF isinf(reward) THEN FinalStates ELSE OpenStates

RewardInputs == {<<state, reward>> : state \in States, reward \in Rewards}

AllRewardInputs == {in \in RewardInputs : in[1] \in RewardStates(in[2])}

\* One trajectory: a dead end, an expansion, an accepted final state.
FewRewardInputs ==
    { <<InitialState, NaN>>,
      <<MkState(1, <<A1>>, <<B1, C1>>), Finite(1)>>,
      <<MkState(1, <<C1>>, <<A1>>), Finite(0)>>,
      <<MkState(1, <<C1, A1>>, <<>>), Inf>> }

\* if math.isnan(reward) or math.isinf(reward): return
TDIgnoresNaNOnly(reward) == isnan(reward)
TDIgnores(reward) == isnan(reward) \/ isinf(reward)

\* TemporalDifference.set_reward_signal
TDSetRewardSignal(inputs) ==
    /\ Started
    /\ predictor = "TD"
    /\ expanding
    /\ \E in \in inputs :
         LET state == in[1]
             reward == in[2]
         IN
         IF TDIgnores(reward)
         THEN /\ policy' = policy
              /\ updated' = policy
              /\ call' = RewardCall(state, reward, "ignored")
         ELSE LET after == UpdatePolicy(policy, iter_resolved_dependencies(state),
                                        reward.val)
              IN  /\ WithinCount(policy, state.resolved)
                  /\ updated' = after
                  /\ policy' = MaybeShrink(after, policySize, iteration)
                  /\ call' = RewardCall(state, reward, "update")
    /\ UNCHANGED <<configVars, seen_accepted, expanding, contextVars, a2, temperature, temperature_history,
                   next_state>>

\* The elif branch, which returns: a reward that is neither NaN nor infinite.
MCTSReturnsEarly(reward) == ~isnan(reward) /\ ~isinf(reward)

\* self._next_state after the call: None in the NaN branch and again after
\* the update, the state in the elif branch.
MCTSNextStateKeptOnInf(state, reward) ==
    IF isnan(reward) THEN None ELSE state
MCTSNextState(state, reward) ==
    IF isnan(reward) THEN None
    ELSE IF ~isinf(reward) THEN state
    ELSE None

\* total_reward = state.score
MCTSTotalRewardFromSignal(state, reward) == reward.val
MCTSTotalReward(state, reward) == state.score

\* MCTS.set_reward_signal
MCTSSetRewardSignal(inputs) ==
    /\ Started
    /\ predictor = "MCTS"
    /\ expanding
    /\ \E in \in inputs :
         LET state == in[1]
             reward == in[2]
         IN
         IF MCTSReturnsEarly(reward)
         THEN \* elif not math.isinf(reward): self._next_state = state; return None
              /\ next_state' = MCTSNextState(state, reward)
              /\ policy' = policy
              /\ updated' = policy
              /\ call' = RewardCall(state, reward, "continue")
         ELSE \* isnan: self._next_state = None, and on to the statements
              \* that follow the if; isinf: straight to them.
              LET total_reward == MCTSTotalReward(state, reward)
                  after == UpdatePolicy(policy, iter_resolved_dependencies(state),
                                        total_reward)
              IN  /\ WithinCount(policy, state.resolved)
                  /\ updated' = after
                  /\ next_state' = MCTSNextState(state, reward)
                  /\ policy' = MaybeShrink(after, policySize, iteration)
                  /\ call' = RewardCall(state, reward, "update")
    /\ UNCHANGED <<configVars, seen_accepted, expanding, contextVars, a2, temperature,
                   temperature_history>>

(***************************************************************************)
(* subprocess_run (run.py): the child computes the report, the parent      *)
(* waits for it.  result_dict is the caller's dict; after the fork each    *)
(* process has its own copy.  Of its keys the model keeps the three that   *)
(* subprocess_run sets, "unset" until then.                                *)
(***************************************************************************)
OOM_EXIT_CODE == 137

OOM_MSG == "Adviser was killed as allocated memory has been exceeded (OOM)"
CPU_MSG == "Adviser was killed as allocated CPU time was exceeded"
UNKNOWN_MSG == "Unknown error during computing advises"

ResultDict(error, error_msg, report) ==
    [error |-> error, error_msg |-> error_msg, report |-> report]

UnsetResult == ResultDict("unset", "unset", "unset")

\* What asa() returns (named by its to_dict()), or the text of what it raises.
Reports == {"report-1", "report-2"}
Exceptions == {"exception-1", "exception-2"}
PlotPaths == {"None", "history.png"}

\* The status os.waitpid returns: the exit code in the high byte for a
\* child that exited, the signal number for one a signal killed.
NotEnded == -1
ExitStatus(code) == code * 256
SignalStatus(sig) == sig
\* SIGKILL from the kernel's OOM killer; SIGKILL or SIGTERM from the probe.
OOMSignals == {9}
ProbeSignals == {9, 15}

\* No Adviser.compute call is made.
AdviserIdle ==
    adviser = [pc |-> "idle", count |-> None, limit |-> None,
               computed_stacks_heap |-> <<>>, visited |-> 0,
               walk |-> <<>>, scored |-> <<>>, result |-> <<>>, calls |-> 0]

\* No pipeline step is run.
StepsIdle ==
    /\ step_context = [paths |-> <<>>, direct_dependencies |-> <<>>]
    /\ step = [pc |-> "idle", prereleases_allowed |-> FALSE,
               limit_latest_versions |-> 0, debug_skip_reported |-> FALSE,
               input |-> [paths |-> <<>>, direct_dependencies |-> <<>>],
               removed |-> <<>>]

\* No resolver drives the predictor.
ResolverIdle ==
    resolver = [pc |-> "idle", count |-> 0, deadline_hit |-> FALSE,
                expanded |-> None, candidates |-> 0, pending |-> None,
                final_heap |-> <<>>, result |-> <<>>]

\* No two runs are compared.
TwinIdle == twin = [pc |-> "idle", prng_seed |-> 0, copies |-> <<>>]

\* No boot is run.
BootIdle ==
    boot = [pc |-> "idle", packages |-> {}, dev_packages |-> {}, stack_info |-> 0,
            input |-> [packages |-> {}, dev_packages |-> {}, stack_info |-> 0],
            returned |-> "nothing", runs |-> 0]

OtherIdle == AdviserIdle /\ StepsIdle /\ ResolverIdle /\ TwinIdle /\ BootIdle

\* The predictor object exists only inside asa(), in the child.
PredictorIdle ==
    /\ predictor = "TD"
    /\ policySize = 0
    /\ keep_history = FALSE
    /\ policy = <<>>
    /\ a2 = 2
    /\ temperature = Zero
    /\ temperature_history = <<>>
    /\ next_state = None
    /\ iteration = 0
    /\ limit = LastIteration
    /\ accepted = 0
    /\ beam = <<InitialState>>
    /\ call = NoCall("init")
    /\ updated = <<>>
    /\ expanding = FALSE
    /\ seen_accepted = FALSE

SubprocessInit ==
    /\ PredictorIdle
    /\ OtherIdle
    /\ plot_history \in PlotPaths
    /\ child = [pc |-> "none", report |-> "None", result_dict |-> UnsetResult]
    /\ parent = [pc |-> "fork", exit_code |-> NotEnded, result_dict |-> UnsetResult]
    /\ wait_status = NotEnded
    /\ kill_file = FALSE
    /\ printed = <<>>

\* The subprocess wrapper before the fork, while the predictors are looked at.
SubprocessIdle ==
    /\ plot_history = "None"
    /\ child = [pc |-> "none", report |-> "None", result_dict |-> UnsetResult]
    /\ parent = [pc |-> "fork", exit_code |-> NotEnded, result_dict |-> UnsetResult]
    /\ wait_status = NotEnded
    /\ kill_file = FALSE
    /\ printed = <<>>

\* pid = os.fork()
Fork ==
    /\ parent.pc = "fork"
    /\ child' = [child EXCEPT !.pc = "asa", !.result_dict = parent.result_dict]
    /\ parent' = [parent EXCEPT !.pc = "waitpid"]
    /\ UNCHANGED <<plot_history, wait_status, kill_file, printed, predictorVars, otherVars>>

\* except Exception as exc: result_dict.update(error=True, ...); sys.exit(1)
ChildFails(exc) ==
    /\ child' = [child EXCEPT !.pc = "ended",
                              !.result_dict = ResultDict("True", exc, "None")]
    /\ wait_status' = ExitStatus(1)

\* report = asa()
ChildAsa ==
    /\ child.pc = "asa"
    /\ \/ \E r \in Reports :
            /\ child' = [child EXCEPT !.report = r,
                                      !.pc = IF plot_history # "None" THEN "plot"
                                             ELSE "update"]
            /\ UNCHANGED wait_status
       \/ \E exc \in Exceptions : ChildFails(exc)
    /\ UNCHANGED <<plot_history, parent, kill_file, printed, predictorVars, otherVars>>

\* report.plot_history(plot_history): what it raises is logged and dropped.
ChildPlot ==
    /\ child.pc = "plot"
    /\ child' = [child EXCEPT !.pc = "update"]
    /\ UNCHANGED <<plot_history, parent, wait_status, kill_file, printed, predictorVars, otherVars>>

\* result_dict.update(dict(error=False, error_msg=None, report=report.to_dict()))
ChildUpdate ==
    /\ child.pc = "update"
    /\ \/ /\ child' = [child EXCEPT !.pc = "print",
                                    !.result_dict = ResultDict("False", "None", child.report)]
          /\ UNCHANGED wait_status
       \/ \E exc \in Exceptions : ChildFails(exc)
    /\ UNCHANGED <<plot_history, parent, kill_file, printed, predictorVars, otherVars>>

\* print_func(time.monotonic() - start_time, result_dict); sys.exit(0)
\* An exception of print_func is caught by nothing: the interpreter ends
\* with exit code 1.
ChildPrint ==
    /\ child.pc = "print"
    /\ printed' = Append(printed, [by |-> "child", result_dict |-> child.result_dict])
    /\ \E raised \in BOOLEAN :
         IF raised
         THEN /\ child' = [child EXCEPT !.pc = "ended"]
              /\ wait_status' = ExitStatus(1)
         ELSE /\ child' = [child EXCEPT !.pc = "exit"]
              /\ UNCHANGED wait_status
    /\ UNCHANGED <<plot_history, parent, kill_file, predictorVars, otherVars>>

\* sys.exit(0) after print_func has returned: the interpreter shuts down and
\* the process ends.
ChildExit ==
    /\ child.pc = "exit"
    /\ child' = [child EXCEPT !.pc = "ended"]
    /\ wait_status' = ExitStatus(0)
    /\ UNCHANGED <<plot_history, parent, kill_file, printed, predictorVars, otherVars>>

ChildAlive == child.pc \notin {"none", "ended"}

\* The kernel's OOM killer ends the child.
OOMKill ==
    /\ ChildAlive
    /\ \E sig \in OOMSignals : wait_status' = SignalStatus(sig)
    /\ child' = [child EXCEPT !.pc = "ended"]
    /\ UNCHANGED <<plot_history, parent, kill_file, printed, predictorVars, otherVars>>

\* The liveness probe times out: it creates its file and ends the child.
LivenessProbeKill ==
    /\ ChildAlive
    /\ kill_file' = TRUE
    /\ \E sig \in ProbeSignals : wait_status' = SignalStatus(sig)
    /\ child' = [child EXCEPT !.pc = "ended"]
    /\ UNCHANGED <<plot_history, parent, printed, predictorVars, otherVars>>

\* The parent's classification of a non-zero exit_code.
ErrMsg(exit_code, file_exists) ==
    IF exit_code = OOM_EXIT_CODE THEN OOM_MSG
    ELSE IF file_exists THEN CPU_MSG
    ELSE UNKNOWN_MSG

\* result_dict.update(dict(error=True, error_msg=err_msg, report=None))
ParentErrorKeepsReport(result_dict, err_msg) ==
    ResultDict("True", err_msg, result_dict.report)
ParentError(result_dict, err_msg) == ResultDict("True", err_msg, "None")

\* _, exit_code = os.waitpid(pid, 0), and the rest of the parent's branch.
ParentWaitpid ==
    /\ parent.pc = "waitpid"
    /\ wait_status # NotEnded
    /\ LET exit_code == wait_status
       IN  IF exit_code # 0
           THEN LET result_dict == ParentError(parent.result_dict,
                                               ErrMsg(exit_code, kill_file))
                IN  /\ printed' = Append(printed, [by |-> "parent",
                                                   result_dict |-> result_dict])
                    /\ \E raised \in BOOLEAN :
                         parent' = [pc |-> IF raised THEN "raised" ELSE "returned",
                                    exit_code |-> exit_code,
                                    result_dict |-> result_dict]
           ELSE /\ parent' = [parent EXCEPT !.pc = "returned", !.exit_code = exit_code]
                /\ UNCHANGED printed
    /\ UNCHANGED <<plot_history, child, wait_status, kill_file, predictorVars, otherVars>>

SubprocessNext ==
    \/ Fork
    \/ ChildAsa
    \/ ChildPlot
    \/ ChildUpdate
    \/ ChildPrint
    \/ ChildExit
    \/ OOMKill
    \/ LivenessProbeKill
    \/ ParentWaitpid

SpecSubprocess == SubprocessInit /\ [][SubprocessNext]_vars

(***************************************************************************)
(* SpecPolicy: the policy store under every reward signal.  The predictors *)
(* change the policy store only in set_reward_signal, which reads its      *)
(* arguments, the policy store and context.iteration; the resolver here    *)
(* only advances the iteration counter.                                    *)
(***************************************************************************)
PolicyInit == PredictorInit /\ keep_history = FALSE /\ SubprocessIdle /\ OtherIdle

PolicyNext ==
    \/ PreRun
    \/ Advance
    \/ TDRun
    \/ MCTSRun
    \/ TDSetRewardSignal(AllRewardInputs)
    \/ MCTSSetRewardSignal(AllRewardInputs)

SpecPolicy == PolicyInit /\ [][PolicyNext]_vars

(***************************************************************************)
(* SpecAnnealing: run() under every beam, temperature and count of         *)
(* accepted final states, with the reward signals of one trajectory.       *)
(***************************************************************************)
AnnealingInit == PredictorInit /\ policySize = 0 /\ SubprocessIdle /\ OtherIdle

AnnealingNext ==
    \/ PreRun
    \/ Advance
    \/ Accept
    \/ BeamChange
    \/ TDRun
    \/ MCTSRun
    \/ TDSetRewardSignal(FewRewardInputs)
    \/ MCTSSetRewardSignal(FewRewardInputs)

SpecAnnealing == AnnealingInit /\ [][AnnealingNext]_vars

(***************************************************************************)
(* Adviser.compute (python/advise.py).  A stack is known by its score: the *)
(* decision function draws it with random.random(), so the scores of one   *)
(* walk differ.  The heap is Python's heapq on a list.                     *)
(***************************************************************************)
Some(x) == [none |-> FALSE, val |-> x]

\* heapq._siftdown(heap, startpos, pos), positions counted from 0
RECURSIVE SiftDownAt(_, _, _, _)
SiftDownAt(heap, newitem, startpos, pos) ==
    IF pos > startpos /\ newitem < heap[((pos - 1) \div 2) + 1]
    THEN SiftDownAt([heap EXCEPT ![pos + 1] = heap[((pos - 1) \div 2) + 1]],
                    newitem, startpos, (pos - 1) \div 2)
    ELSE [heap EXCEPT ![pos + 1] = newitem]

siftdown(heap, startpos, pos) == SiftDownAt(heap, heap[pos + 1], startpos, pos)

\* heapq._siftup(heap, pos): the smaller child moves up until a leaf is
\* reached, then the item is sifted down from there.
RECURSIVE SiftUpAt(_, _, _, _)
SiftUpAt(heap, newitem, startpos, pos) ==
    LET endpos == Len(heap)
        leftpos == 2 * pos + 1
        rightpos == leftpos + 1
        childpos == IF rightpos < endpos /\ ~(heap[leftpos + 1] < heap[rightpos + 1])
                    THEN rightpos ELSE leftpos
    IN  IF leftpos < endpos
        THEN SiftUpAt([heap EXCEPT ![pos + 1] = heap[childpos + 1]], newitem,
                      startpos, childpos)
        ELSE SiftDownAt(heap, newitem, startpos, pos)

siftup(heap, pos) == SiftUpAt(heap, heap[pos + 1], pos, pos)

heappush(heap, item) == siftdown(Append(heap, item), 0, Len(heap))

\* The heap after heapq.heappushpop(heap, item); what it returns is dropped.
heappushpop(heap, item) ==
    IF heap # <<>> /\ heap[1] < item
    THEN siftup([heap EXCEPT ![1] = item], 0)
    ELSE heap

\* sorted(heap, key=operator.itemgetter(0))
RECURSIVE SortedByScore(_)
InsertAscending(x, sorted) ==
    LET k == Cardinality({i \in 1..Len(sorted) : sorted[i] <= x})
    IN  SubSeq(sorted, 1, k) \o <<x>> \o SubSeq(sorted, k + 1, Len(sorted))
SortedByScore(heap) ==
    IF heap = <<>> THEN <<>>
    ELSE InsertAscending(heap[Len(heap)], SortedByScore(SubSeq(heap, 1, Len(heap) - 1)))

Scores == 1..MaxStacks

\* What dependency_graph.walk yields: stacks with the scores the decision
\* function gave them.
Walks ==
    {w \in UNION {[1..n -> Scores] : n \in 0..MaxStacks} :
        \A i, j \in 1..Len(w) : i # j => w[i] # w[j]}

OptionalCounts == {None} \cup {Some(n) : n \in 0..MaxStacks}

notAdviser == <<predictorVars, subprocessVars, step_context, step, resolver, twin, boot>>

AdviserInit ==
    /\ PredictorIdle
    /\ SubprocessIdle
    /\ StepsIdle
    /\ ResolverIdle
    /\ TwinIdle
    /\ BootIdle
    /\ \E self_count \in OptionalCounts, self_limit \in OptionalCounts :
         adviser = [pc |-> "idle", count |-> self_count, limit |-> self_limit,
                    computed_stacks_heap |-> <<>>, visited |-> 0,
                    walk |-> <<>>, scored |-> <<>>, result |-> <<>>, calls |-> 0]

\* dependency_graph = DependencyGraph.from_project(project); the walk starts.
ComputeStart ==
    /\ adviser.pc \in {"idle", "returned", "TypeError", "WalkError"}
    /\ adviser.calls < MaxCalls
    /\ \E w \in Walks :
         adviser' = [adviser EXCEPT !.pc = "walk", !.walk = w, !.scored = <<>>,
                                    !.result = <<>>, !.calls = @ + 1]
    /\ UNCHANGED notAdviser

\* finally: self._computed_stacks_heap = []; self._visited = 0
FinallyKeeps(adv, pc, result) ==
    [adv EXCEPT !.pc = pc, !.result = result]
Finally(adv, pc, result) ==
    [adv EXCEPT !.pc = pc, !.result = result,
                !.computed_stacks_heap = <<>>, !.visited = 0]

\* if self.limit is not None and self._visited >= self.count: break
\* An int does not compare with None: TypeError.
BreakTest(self_limit, self_count, visited) ==
    IF self_limit.none THEN "continue"
    ELSE IF self_count.none THEN "TypeError"
    ELSE IF visited >= self_count.val THEN "break" ELSE "continue"

\* The heap after the push of one iteration of the loop.
PushedUnbounded(self_count, heap, score) ==
    heappush(heap, score)
Pushed(self_count, heap, score) ==
    IF ~self_count.none /\ Len(heap) >= self_count.val
    THEN heappushpop(heap, score)
    ELSE heappush(heap, score)

\* The list compute returns: the heap sorted on the score.
Returned(heap) == SortedByScore(heap)

\* One iteration of the for loop; a break goes on to the return.
WalkStep ==
    /\ adviser.pc = "walk"
    /\ adviser.walk # <<>>
    /\ LET score == Head(adviser.walk)
           visited == adviser.visited + 1
           heap == Pushed(adviser.count, adviser.computed_stacks_heap, score)
           seen == [adviser EXCEPT !.walk = Tail(@), !.scored = Append(@, score),
                                   !.visited = visited,
                                   !.computed_stacks_heap = heap]
           test == BreakTest(adviser.limit, adviser.count, visited)
       IN  adviser' = IF test = "TypeError" THEN Finally(seen, "TypeError", <<>>)
                      ELSE IF test = "break" THEN Finally(seen, "returned", Returned(heap))
                      ELSE seen
    /\ UNCHANGED notAdviser

\* The walk is exhausted: the return after the loop.
ComputeReturn ==
    /\ adviser.pc = "walk"
    /\ adviser.walk = <<>>
    /\ adviser' = Finally(adviser, "returned", Returned(adviser.computed_stacks_heap))
    /\ UNCHANGED notAdviser

\* The walk or the decision function raises: the exception leaves compute
\* through the finally clause.
WalkRaises ==
    /\ adviser.pc = "walk"
    /\ adviser' = Finally(adviser, "WalkError", <<>>)
    /\ UNCHANGED notAdviser

AdviserNext ==
    \/ ComputeStart
    \/ WalkStep
    \/ ComputeReturn
    \/ WalkRaises

SpecAdviser == AdviserInit /\ [][AdviserNext]_vars

(***************************************************************************)
(* Pipeline steps run on a StepContext: CutPreReleases                     *)
(* (python/pipeline/steps/prereleases.py) and LimitLatestVersions, which   *)
(* is known from its tests.  A path is a direct dependency followed by a   *)
(* transitive one, as package tuples; every path carries a score.          *)
(***************************************************************************)
PackageVersion(name, version, semantic_version, prerelease, build, index) ==
    [name |-> name, version |-> version, semantic_version |-> semantic_version,
     prerelease |-> prerelease, build |-> build, index |-> index]

TensorflowVersions ==
    { PackageVersion("tensorflow", "1.9.0", <<1, 9, 0>>, "", "",
                     "https://thoth-station.ninja/simple"),
      PackageVersion("tensorflow", "2.0.0", <<2, 0, 0>>, "", "",
                     "https://thoth-station.ninja/simple"),
      PackageVersion("tensorflow", "2.1.0rc1", <<2, 1, 0>>, "rc1", "",
                     "https://thoth-station.ninja/simple") }

NumpyVersions ==
    { PackageVersion("numpy", "1.0.0", <<1, 0, 0>>, "", "", "https://pypi.org/simple"),
      PackageVersion("numpy", "2.0.0", <<2, 0, 0>>, "", "", "https://pypi.org/simple"),
      PackageVersion("numpy", "2.1.0+b1", <<2, 1, 0>>, "", "b1",
                     "https://pypi.org/simple") }

StepPackages == TensorflowVersions \cup NumpyVersions
StepNames == <<"tensorflow", "numpy">>

\* PackageVersion.to_tuple(): (name, locked version, index url)
to_tuple(pv) == <<pv.name, pv.version, pv.index>>

\* The package version a package tuple of a path stands for.
FromTuple(t) == CHOOSE pv \in StepPackages : to_tuple(pv) = t

StepPaths == {<<to_tuple(d), to_tuple(t)>> : d \in TensorflowVersions, t \in NumpyVersions}

\* s without the elements that occur earlier in it.
RECURSIVE Unique(_)
Unique(seq) ==
    IF seq = <<>> THEN <<>>
    ELSE LET front == Unique(SubSeq(seq, 1, Len(seq) - 1))
             last == seq[Len(seq)]
         IN  IF last \in Range(front) THEN front ELSE Append(front, last)

\* step_context.add_resolved_direct_dependency for the head of every path,
\* then step_context.add_paths(paths): every path starts with score 0.0.
MkStepContext(paths) ==
    [paths |-> [i \in 1..Len(paths) |-> [score |-> 0, path |-> paths[i]]],
     direct_dependencies |-> Unique([i \in 1..Len(paths) |-> paths[i][1]])]

StepContexts ==
    {MkStepContext(paths) :
        paths \in {ps \in UNION {[1..n -> StepPaths] : n \in 1..MaxPaths} :
                      \A i, j \in 1..Len(ps) : i # j => ps[i] # ps[j]}}

\* step_context.iter_all_dependencies(): the direct dependencies, then the
\* transitive ones in the order of the paths, each once.
iter_all_dependencies(ctx) ==
    LET transitive == [i \in 1..Len(ctx.paths) |-> ctx.paths[i].path[2]]
        tuples == Unique(ctx.direct_dependencies \o transitive)
    IN  [i \in 1..Len(tuples) |-> FromTuple(tuples[i])]

\* step_change.remove_package_tuple(package_tuple), applied when the change
\* is left: the paths through the package tuple go, and with them the
\* direct dependencies no path starts with any more.
remove_package_tuple(ctx, package_tuple) ==
    LET paths == SelectSeq(ctx.paths, LAMBDA p : package_tuple \notin Range(p.path))
    IN  [paths |-> paths,
         direct_dependencies |->
             SelectSeq(ctx.direct_dependencies,
                       LAMBDA d : \E i \in 1..Len(paths) : paths[i].path[1] = d)]

RECURSIVE RemoveAll(_, _)
RemoveAll(ctx, package_tuples) ==
    IF package_tuples = <<>> THEN ctx
    ELSE RemoveAll(remove_package_tuple(ctx, Head(package_tuples)), Tail(package_tuples))

ToTuples(pvs) == [i \in 1..Len(pvs) |-> to_tuple(pvs[i])]

StepsInit ==
    /\ PredictorIdle
    /\ SubprocessIdle
    /\ AdviserIdle
    /\ ResolverIdle
    /\ TwinIdle
    /\ BootIdle
    /\ step_context \in StepContexts
    /\ \E allowed \in BOOLEAN, n \in 1..2 :
         step = [pc |-> "ready", prereleases_allowed |-> allowed,
                 limit_latest_versions |-> n, debug_skip_reported |-> FALSE,
                 input |-> step_context, removed |-> <<>>]

notSteps == <<predictorVars, subprocessVars, adviser, resolver, twin, boot>>

\* if package_version.semantic_version.prerelease or
\*    package_version.semantic_version.build
CutsPackagePrereleaseOnly(package_version) == package_version.prerelease # ""
CutsPackage(package_version) ==
    package_version.prerelease # "" \/ package_version.build # ""

\* CutPreReleases.run(step_context)
CutPreReleasesRun ==
    /\ step.pc = "ready"
    /\ IF step.prereleases_allowed
       THEN /\ step' = [step EXCEPT !.pc = "CutPreReleases",
                                    !.debug_skip_reported = TRUE]
            /\ UNCHANGED step_context
       ELSE LET removed == ToTuples(SelectSeq(iter_all_dependencies(step_context),
                                              CutsPackage))
            IN  /\ step' = [step EXCEPT !.pc = "CutPreReleases",
                                        !.debug_skip_reported = FALSE,
                                        !.removed = removed]
                /\ step_context' = RemoveAll(step_context, removed)
    /\ UNCHANGED notSteps

\* a is a newer version than b: the semantic versions compared, a
\* pre-release older than its release.
Newer(a, b) ==
    LET x == a.semantic_version
        y == b.semantic_version
    IN  \/ x[1] > y[1]
        \/ x[1] = y[1] /\ x[2] > y[2]
        \/ x[1] = y[1] /\ x[2] = y[2] /\ x[3] > y[3]
        \/ x = y /\ a.prerelease = "" /\ b.prerelease # ""

\* The versions of one package name, newest first.
RECURSIVE NewestFirst(_)
NewestFirst(pvs) ==
    IF pvs = {} THEN <<>>
    ELSE LET newest == CHOOSE a \in pvs : \A b \in pvs \ {a} : Newer(a, b)
         IN  <<newest>> \o NewestFirst(pvs \ {newest})

\* What is cut of the versions of one name: all but the n newest.
VersionsToCutOffByOne(versions, n) == SubSeq(versions, n + 2, Len(versions))
VersionsToCut(versions, n) == SubSeq(versions, n + 1, Len(versions))

\* LimitLatestVersions.run(step_context)
LimitLatestVersionsRun ==
    /\ step.pc = "ready"
    /\ LET all == Range(iter_all_dependencies(step_context))
           cut(name) == VersionsToCut(NewestFirst({pv \in all : pv.name = name}),
                                      step.limit_latest_versions)
           removed == ToTuples(cut(StepNames[1]) \o cut(StepNames[2]))
       IN  /\ step' = [step EXCEPT !.pc = "LimitLatestVersions", !.removed = removed]
           /\ step_context' = RemoveAll(step_context, removed)
    /\ UNCHANGED notSteps

StepsNext ==
    \/ CutPreReleasesRun
    \/ LimitLatestVersionsRun

SpecSteps == StepsInit /\ [][StepsNext]_vars

(***************************************************************************)
(* The resolver loop around the predictor:                                 *)
(*   while iteration < limit and accepted < count and not deadline_hit:    *)
(*       iteration += 1; (state, dep) = predictor.run()                    *)
(*       candidates = sieved versions of dep                               *)
(*       if none: predictor.set_reward_signal(state, dep, NaN); continue   *)
(*       for cand in candidates: the child of state by cand is vetoed by a *)
(*           step, or terminal (accepted by the strides: pushed to the     *)
(*           final heap, reward +Inf; or rejected), or added to the beam   *)
(*           with the reward of its steps.                                 *)
(* resolver.pc is the place in it: "loop" at the loop test, "run" before   *)
(* predictor.run(), "expand" in the expansion, "done" after the loop.      *)
(***************************************************************************)
CandidateVersions == <<"1.0.0", "2.0.0", "3.0.0", "4.0.0">>

\* The dependencies a candidate brings in.
NewDependencies(state, cand) ==
    {<<>>} \cup
    {<<C1>> : x \in {y \in {1} : \A pt \in Range(state.resolved) \cup Range(state.unresolved)
                                    \cup {cand} : pt[1] # C1[1]}}

\* successor = state.clone(); successor.add_resolved(cand); successor.add_unresolved(deps)
MkChild(state, dep, cand, score, deps) ==
    MkState(state.score + score, Append(state.resolved, cand),
            SelectSeq(state.unresolved, LAMBDA pt : pt # dep) \o deps)

is_terminal(state) == state.unresolved = <<>>

\* beam.add(successor): the beam keeps its MaxBeam best states, the best first.
BeamAdd(b, successor) ==
    IF successor \in Range(b) THEN b
    ELSE LET all == IF successor.score > b[1].score THEN <<successor>> \o b
                    ELSE Append(b, successor)
             worst == CHOOSE i \in 1..Len(all) :
                          \A j \in 1..Len(all) :
                              \/ all[j].score > all[i].score
                              \/ all[j].score = all[i].score /\ j <= i
         IN  IF Len(all) <= MaxBeam THEN all
             ELSE SubSeq(all, 1, worst - 1) \o SubSeq(all, worst + 1, Len(all))

\* final_heap.push(successor): a heap of at most count states, the worst leaves.
FinalHeapPush(heap, successor, count) ==
    LET all == Append(heap, successor)
        worst == CHOOSE i \in 1..Len(all) :
                     \A j \in 1..Len(all) :
                         \/ all[j].score > all[i].score
                         \/ all[j].score = all[i].score /\ j >= i
    IN  IF Len(all) <= count THEN all
        ELSE SubSeq(all, 1, worst - 1) \o SubSeq(all, worst + 1, Len(all))

\* The initial state of a project with one direct dependency.
SmallInitialState == MkState(0, <<>>, <<A1>>)

ResolverInit ==
    /\ predictor \in {"TD", "MCTS"}
    /\ policySize = 0
    /\ keep_history = FALSE
    /\ policy = <<>>
    /\ a2 = 2
    /\ temperature = Zero
    /\ temperature_history = <<>>
    /\ next_state = None
    /\ iteration = 0
    /\ limit \in 1..MaxLimit
    /\ accepted = 0
    /\ beam \in {<<InitialState>>, <<SmallInitialState>>}
    /\ call = NoCall("init")
    /\ updated = <<>>
    /\ expanding = FALSE
    /\ seen_accepted = FALSE
    /\ SubprocessIdle
    /\ AdviserIdle
    /\ StepsIdle
    /\ TwinIdle
    /\ BootIdle
    /\ \E count \in 1..2 :
         resolver = [pc |-> "loop", count |-> count, deadline_hit |-> FALSE,
                     expanded |-> None, candidates |-> 0, pending |-> None,
                     final_heap |-> <<>>, result |-> <<>>]

notResolver == <<predictor, policySize, keep_history, subprocessVars, adviser,
                 step_context, step, twin, boot>>

\* The reward signal the expansion owes the predictor has been given.
Delivered == resolver.pending.none \/ call.op = "set_reward_signal"

\* The model follows a policy record up to MaxCount visits: a reward signal
\* that takes one beyond is not offered.
Deliverable(state, reward) ==
    LET updates == IF predictor = "TD" THEN ~TDIgnores(reward)
                   ELSE ~MCTSReturnsEarly(reward)
    IN  updates => WithinCount(policy, state.resolved)

\* while context.iteration < context.limit and accepted < count and not deadline_hit
LoopTestWithoutLimit(it, lim, acc, count, deadline_hit) ==
    acc < count /\ ~deadline_hit
LoopTest(it, lim, acc, count, deadline_hit) ==
    it < lim /\ acc < count /\ ~deadline_hit

\* The loop test holds: context.iteration += 1
LoopEnter ==
    /\ Started
    /\ resolver.pc = "loop"
    /\ LoopTest(iteration, limit, accepted, resolver.count, resolver.deadline_hit)
    /\ iteration' = iteration + 1
    /\ expanding' = FALSE
    /\ resolver' = [resolver EXCEPT !.pc = "run", !.expanded = None]
    /\ call' = NoCall("env")
    /\ updated' = policy
    /\ UNCHANGED <<notResolver, seen_accepted, policy, a2, temperature,
                   temperature_history, next_state, limit, accepted, beam>>

\* The loop test fails: the loop is left and the final heap returned.
LoopExit ==
    /\ Started
    /\ resolver.pc = "loop"
    /\ ~LoopTest(iteration, limit, accepted, resolver.count, resolver.deadline_hit)
    /\ resolver' = [resolver EXCEPT !.pc = "done", !.result = resolver.final_heap]
    /\ UNCHANGED <<notResolver, predictorVars>>

\* The deadline passes.
DeadlineHit ==
    /\ resolver.pc \in {"loop", "run", "expand"}
    /\ ~resolver.deadline_hit
    /\ resolver' = [resolver EXCEPT !.deadline_hit = TRUE]
    /\ UNCHANGED <<notResolver, predictorVars>>

\* candidates = graph.get_versions(...), sieved; none: the NaN signal.
GetCandidates ==
    /\ resolver.pc = "run"
    /\ call.op = "run"
    /\ \E k \in 0..MaxCandidates :
         /\ k = 0 => Deliverable(call.state, NaN)
         /\ resolver' = [resolver EXCEPT
                !.pc = "expand",
                !.expanded = Some([state |-> call.state, dep |-> call.pt]),
                !.candidates = k,
                !.pending = IF k = 0 THEN Some(<<call.state, NaN>>) ELSE None]
    /\ call' = NoCall("env")
    /\ updated' = policy
    /\ UNCHANGED <<notResolver, seen_accepted, expanding, policy, a2, temperature,
                   temperature_history, next_state, iteration, limit, accepted, beam>>

\* One candidate of the for loop.
Candidate ==
    /\ resolver.pc = "expand"
    /\ resolver.candidates > 0
    /\ Delivered
    /\ LET state == resolver.expanded.val.state
           dep == resolver.expanded.val.dep
           cand == <<dep[1], CandidateVersions[resolver.candidates], dep[3]>>
           rest == [resolver EXCEPT !.candidates = @ - 1, !.pending = None]
       IN  \/ \* a step returns None
              /\ resolver' = rest
              /\ UNCHANGED <<accepted, beam>>
           \/ \E score \in {0, 1}, deps \in NewDependencies(state, cand) :
                LET successor == MkChild(state, dep, cand, score, deps)
                IN  IF is_terminal(successor)
                    THEN \/ \* the strides accept
                            /\ Deliverable(successor, Inf)
                            /\ accepted' = accepted + 1
                            /\ resolver' = [rest EXCEPT
                                   !.final_heap = FinalHeapPush(@, successor, resolver.count),
                                   !.pending = Some(<<successor, Inf>>)]
                            /\ UNCHANGED beam
                         \/ \* a stride rejects
                            /\ resolver' = rest
                            /\ UNCHANGED <<accepted, beam>>
                    ELSE /\ Deliverable(successor, Finite(score))
                         /\ beam' = BeamAdd(beam, successor)
                         /\ resolver' = [rest EXCEPT !.pending = Some(<<successor, Finite(score)>>)]
                         /\ UNCHANGED accepted
    /\ call' = NoCall("env")
    /\ updated' = policy
    /\ UNCHANGED <<notResolver, seen_accepted, expanding, policy, a2, temperature,
                   temperature_history, next_state, iteration, limit>>

\* predictor.set_reward_signal(...) with what the expansion owes.
RewardSignal ==
    /\ resolver.pc = "expand"
    /\ ~resolver.pending.none
    /\ call.op = "env"
    /\ \/ TDSetRewardSignal({resolver.pending.val})
       \/ MCTSSetRewardSignal({resolver.pending.val})

\* The expansion is over: back to the loop test.
LoopBack ==
    /\ resolver.pc = "expand"
    /\ resolver.candidates = 0
    /\ Delivered
    /\ resolver' = [resolver EXCEPT !.pc = "loop"]
    /\ UNCHANGED <<notResolver, predictorVars>>

ResolverNext ==
    \/ PreRun
    \/ LoopEnter
    \/ LoopExit
    \/ DeadlineHit
    \/ TDRun
    \/ MCTSRun
    \/ GetCandidates
    \/ Candidate
    \/ RewardSignal
    \/ LoopBack

SpecResolver == ResolverInit /\ [][ResolverNext]_vars /\ WF_vars(ResolverNext)

(***************************************************************************)
(* Two runs of the engine side by side, started with the same inputs and   *)
(* the same prng_seed and given the same oracle responses.  A run draws    *)
(* from the generator of the random module: random.randrange and           *)
(* random.random in run(), random.random in Adviser._decision_function,    *)
(* and the draws of beam.get_random() and                                  *)
(* state.get_random_unresolved_dependency().  The generator is a state x   *)
(* in 0..MaxDraw: a draw returns a value computed from x and moves x on.   *)
(***************************************************************************)
\* random.seed(prng_seed) when the run starts
Seeded(prng_seed) == [x |-> prng_seed % (MaxDraw + 1)]

\* The values the next draw of the generator may return.
RandomDrawsUnseeded(r) == 0..MaxDraw
RandomDraws(r) == {r.x}

\* The generator after a draw.
Spent(r) == [x |-> (5 * r.x + 3) % (MaxDraw + 1)]

\* random.randrange(1, size) from the drawn value
Randrange1(v, size) == 1 + (v % (size - 1))

\* an index into a collection of n from the drawn value
RandomIndex(v, n) == 1 + (v % n)

\* acceptance_probability >= random.random(), the draw being v / (MaxDraw + 1).
\* Of a probability strictly between 0 and 1 only the class is kept: the
\* comparison is made as for 1/2.
Accepts(p, v) ==
    IF p = "one" THEN TRUE
    ELSE IF v = 0 THEN TRUE
    ELSE IF p = "zero" THEN FALSE
    ELSE 2 * v <= MaxDraw + 1

\* A run of the engine: its generator, predictor and context, the choices
\* of its run() calls and the heap of Adviser.compute.
NewCopy(prng_seed, lim) ==
    [random |-> Seeded(prng_seed), policy |-> <<>>, a2 |-> 2,
     temperature |-> Frac(lim, 1), beam |-> <<InitialState>>, accepted |-> 0,
     iteration |-> 0, limit |-> lim, choices |-> <<>>, heap |-> <<>>,
     raised |-> FALSE]

Chose(c, tf, r, state, pt, how, pol) ==
    [c EXCEPT !.random = r, !.temperature = tf.t, !.a2 = tf.a2, !.policy = pol,
              !.choices = Append(@, [state |-> state, pt |-> pt, how |-> how])]

Raised(c) == [c EXCEPT !.raised = TRUE]

\* _do_exploration: beam.get_random(), then a random unresolved dependency
Exploration(c, tf, r) ==
    UNION {{LET state == c.beam[RandomIndex(v3, BeamSize(c.beam))]
                deps == iter_unresolved_dependencies(state)
            IN  Chose(c, tf, Spent(Spent(r)), state,
                      deps[RandomIndex(v4, Len(deps))], "exploration", c.policy)
            : v4 \in RandomDraws(Spent(r))} : v3 \in RandomDraws(r)}

\* _do_exploitation: the best known dependency of beam.max(), a random one
\* if the policy knows none
Exploitation(c, tf, r) ==
    LET state == BeamMax(c.beam)
        deps == iter_unresolved_dependencies(state)
        best == ExploitationScan(c.policy, deps, None)
        pol == PolicyAfterScan(c.policy, deps)
    IN  IF best = AttributeError THEN {Raised(c)}
        ELSE IF best # None
        THEN {Chose(c, tf, r, state, best.pt, "exploitation", pol)}
        ELSE {Chose(c, tf, Spent(r), state, deps[RandomIndex(v, Len(deps))],
                    "exploitation", pol) : v \in RandomDraws(r)}

\* TemporalDifference.run of one copy: what the copy is after it.
RunOutcomes(c) ==
    LET tf == TemperatureFunction(c.temperature, c.a2, c.accepted, c.iteration, c.limit)
        top == BeamMax(c.beam)
        size == BeamSize(c.beam)
    IN  IF tf.t = ZeroDivision THEN {Raised(c)}
        ELSE UNION {
               LET idx == IF size > 1 THEN Randrange1(v1, size) ELSE 0
                   r1 == IF size > 1 THEN Spent(c.random) ELSE c.random
                   probable_state == ProbableState(c.beam, idx)
                   p == AcceptanceProbability(top.score, probable_state.score, tf.t)
               IN  \* random.random() is drawn only if probable_state_idx != 0
                   IF idx = 0 THEN Exploitation(c, tf, r1)
                   ELSE UNION {IF Accepts(p, v2)
                               THEN Exploration(c, tf, Spent(r1))
                               ELSE Exploitation(c, tf, Spent(r1))
                               : v2 \in RandomDraws(r1)}
               : v1 \in RandomDraws(c.random)}

\* Adviser._decision_function: the score is random.random()
DecisionOutcomes(c) ==
    {[c EXCEPT !.random = Spent(c.random), !.heap = heappush(@, v)]
     : v \in RandomDraws(c.random)}

TwinInit ==
    /\ PredictorIdle
    /\ SubprocessIdle
    /\ AdviserIdle
    /\ StepsIdle
    /\ ResolverIdle
    /\ BootIdle
    /\ \E prng_seed \in 0..MaxDraw, lim \in 1..MaxLimit :
         twin = [pc |-> "loop", prng_seed |-> prng_seed,
                 copies |-> <<NewCopy(prng_seed, lim), NewCopy(prng_seed, lim)>>]

notTwin == <<predictorVars, subprocessVars, adviser, step_context, step, resolver, boot>>

Running(c) == ~c.raised /\ c.iteration < c.limit

\* context.iteration += 1; predictor.run(), in both runs
TwinRun ==
    /\ twin.pc = "loop"
    /\ \A i \in 1..2 : Running(twin.copies[i])
    /\ \E c1 \in RunOutcomes([twin.copies[1] EXCEPT !.iteration = @ + 1]),
          c2 \in RunOutcomes([twin.copies[2] EXCEPT !.iteration = @ + 1]) :
         twin' = [twin EXCEPT !.pc = "expand", !.copies = <<c1, c2>>]
    /\ UNCHANGED notTwin

\* The expansion, the same for both runs: the oracle answers alike, so the
\* beam and the count of accepted final states change alike.
TwinExpand ==
    /\ twin.pc = "expand"
    /\ \E b \in Beams, acc \in {0, 1} :
         /\ \A i \in 1..2 : twin.copies[i].accepted + acc <= MaxAccepted
         /\ twin' = [twin EXCEPT
                !.pc = "loop",
                !.copies = [i \in 1..2 |->
                    [twin.copies[i] EXCEPT !.beam = b, !.accepted = @ + acc]]]
    /\ UNCHANGED notTwin

\* Adviser.compute scores a stack with _decision_function, in both runs
TwinDecision ==
    /\ twin.pc = "loop"
    /\ \A i \in 1..2 : Len(twin.copies[i].heap) < MaxStacks
    /\ \E c1 \in DecisionOutcomes(twin.copies[1]),
          c2 \in DecisionOutcomes(twin.copies[2]) :
         twin' = [twin EXCEPT !.copies = <<c1, c2>>]
    /\ UNCHANGED notTwin

TwinNext ==
    \/ TwinRun
    \/ TwinExpand
    \/ TwinDecision

SpecTwin == TwinInit /\ [][TwinNext]_vars

(***************************************************************************)
(* ImportlibResourcesBackportBoot.run on context.project.pipfile: the      *)
(* packages and dev_packages tables are the sets of their package names,   *)
(* context.stack_info the number of its entries.                           *)
(***************************************************************************)
PipfileNames == {"importlib-resources", "flask", "pytest"}

\* packages.pop(name, None)
PopKeeps(packages, name) == packages
Pop(packages, name) == packages \ {name}

BootInit ==
    /\ PredictorIdle
    /\ SubprocessIdle
    /\ AdviserIdle
    /\ StepsIdle
    /\ ResolverIdle
    /\ TwinIdle
    /\ \E packages \in SUBSET PipfileNames, dev_packages \in SUBSET PipfileNames,
          stack_info \in 0..MaxStackInfo :
         boot = [pc |-> "ready", packages |-> packages, dev_packages |-> dev_packages,
                 stack_info |-> stack_info,
                 input |-> [packages |-> packages, dev_packages |-> dev_packages,
                            stack_info |-> stack_info],
                 returned |-> "nothing", runs |-> 0]

notBoot == <<predictorVars, subprocessVars, adviser, step_context, step, resolver, twin>>

\* with ImportlibResourcesBackportBoot.assigned_context(context): unit.run()
ImportlibResourcesBackportBootRun ==
    /\ boot.pc \in {"ready", "returned"}
    /\ boot.runs < MaxCalls
    /\ boot' = [boot EXCEPT
           !.pc = "returned",
           !.input = [packages |-> boot.packages, dev_packages |-> boot.dev_packages,
                      stack_info |-> boot.stack_info],
           !.packages = Pop(@, "importlib-resources"),
           !.dev_packages = Pop(@, "importlib-resources"),
           !.stack_info = @ + 1,
           !.returned = "None",
           !.runs = @ + 1]
    /\ UNCHANGED notBoot

\* pipfile.add_package_version(package_version) between two runs
AddPackageVersion ==
    /\ boot.pc = "returned"
    /\ boot.runs < MaxCalls
    /\ \E name \in PipfileNames, develop \in BOOLEAN :
         boot' = [boot EXCEPT
             !.pc = "ready",
             !.packages = IF develop THEN @ ELSE @ \cup {name},
             !.dev_packages = IF develop THEN @ \cup {name} ELSE @]
    /\ UNCHANGED notBoot

BootNext ==
    \/ ImportlibResourcesBackportBootRun
    \/ AddPackageVersion

SpecBoot == BootInit /\ [][BootNext]_vars

(***************************************************************************)
(* Properties of subprocess_run.                                           *)
(***************************************************************************)
\* The child was ended by a signal: os.waitpid reports the signal number.
ChildKilled == wait_status \in OOMSignals \cup ProbeSignals

ParentPrints == {printed[i].result_dict : i \in {j \in 1..Len(printed) : printed[j].by = "parent"}}

\* C1 as stated: when the child is killed before it completes (by the OOM
\* killer or by the liveness probe), the result the parent hands to
\* print_func still holds a report (its report is not None or missing).
C1_AsStated ==
    ChildKilled => \A r \in ParentPrints : r.report \notin {"None", "unset"}

\* C1 amended: when the child is killed before it completes, the result the
\* parent hands to print_func holds no report: report is None, error is
\* True and error_msg is one of the parent's three messages.
C1_KilledChildNoReport ==
    ChildKilled =>
        \A r \in ParentPrints :
            /\ r.report = "None"
            /\ r.error = "True"
            /\ r.error_msg \in {OOM_MSG, CPU_MSG, UNKNOWN_MSG}

\* The probe killed a child that had its report computed and stored in its
\* own result_dict, and the parent has reported.
C1_Witness ==
    /\ ChildKilled
    /\ kill_file
    /\ child.result_dict.report \in Reports
    /\ parent.pc = "returned"
    /\ ParentPrints # {}

(***************************************************************************)
(* Properties of the predictors.                                           *)
(***************************************************************************)
IsRewardCall(c) == c.op = "set_reward_signal"
IsFinite(r) == ~isnan(r) /\ ~isinf(r)

\* The record of pt in a policy store, (0.0, 0) when it has none.
RecordOf(pol, pt) ==
    IF \E i \in 1..Len(pol) : pol[i].key = pt
    THEN pol[CHOOSE i \in 1..Len(pol) : pol[i].key = pt].rec
    ELSE <<0, 0>>

\* The call evicts: cap set, iteration a multiple of 1024, update reached.
EvictionCall ==
    /\ IsRewardCall(call)
    /\ call.branch = "update"
    /\ policySize # 0
    /\ iteration % EVICTION_PERIOD = 0

\* C2: MCTS.set_reward_signal changes the policy store only when the reward
\* is +Inf: a call with a NaN or a finite reward leaves the policy store
\* (keys, reward sums, visit counts) as it was.
C2_PolicyChangesOnlyOnInf ==
    [][(predictor = "MCTS" /\ IsRewardCall(call')
        /\ (isnan(call'.reward) \/ IsFinite(call'.reward)))
       => policy' = policy]_vars

\* C3: MCTS trajectory memory: next_state is None after pre_run; after
\* set_reward_signal(state, _, reward) it is `state` exactly when the reward
\* is finite, and None when the reward is NaN or infinite; run never
\* changes it.
C3_NextStateAfterCall ==
    predictor = "MCTS" =>
        /\ call.op = "pre_run" => next_state = None
        /\ IsRewardCall(call) =>
             /\ next_state = call.state <=> IsFinite(call.reward)
             /\ ~IsFinite(call.reward) => next_state = None

C3_NextState ==
    /\ []C3_NextStateAfterCall
    /\ [][call'.op = "run" => next_state' = next_state]_vars

\* A trajectory was continued by run, after a finite reward had set it.
C3_Witness ==
    /\ predictor = "MCTS"
    /\ call.op = "run"
    /\ call.branch = "next_state"
    /\ next_state \in OpenStates
    /\ policy # <<>>

\* C4: MCTS.set_reward_signal with reward +Inf: before any eviction, every
\* package tuple of state.resolved has its reward_sum raised by state.score
\* and its visit_count by 1 (from (0.0, 0) if it had no record), and no
\* other package tuple gains, loses or changes a record.
C4_InfCreditsScore ==
    [][(predictor = "MCTS" /\ IsRewardCall(call') /\ call'.reward = Inf)
       => /\ \A pt \in Range(call'.state.resolved) :
               /\ pt \in Keys(updated')
               /\ RecordOf(updated', pt) =
                    <<RecordOf(policy, pt)[1] + call'.state.score,
                      RecordOf(policy, pt)[2] + 1>>
          /\ \A pt \in PackageTuples \ Range(call'.state.resolved) :
               /\ pt \in Keys(updated') <=> pt \in Keys(policy)
               /\ RecordOf(updated', pt) = RecordOf(policy, pt)]_vars

\* An accepted final state whose score is not 1 was credited to a record
\* that existed before and to one that did not.
C4_Witness ==
    /\ predictor = "MCTS"
    /\ IsRewardCall(call)
    /\ call.reward = Inf
    /\ call.state.score = 2
    /\ \E pt \in Range(call.state.resolved) : RecordOf(updated, pt)[2] = 2
    /\ \E pt \in Range(call.state.resolved) : RecordOf(updated, pt)[2] = 1

\* C5: MCTS.run with next_state set returns next_state and one of its
\* unresolved dependencies, and leaves temperature, slope, temperature
\* history, policy and next_state alone, whatever the beam holds.
C5_RunContinuesTrajectory ==
    [][(predictor = "MCTS" /\ next_state # None /\ call'.op = "run")
       => /\ call'.state = next_state
          /\ call'.pt \in Range(next_state.unresolved)
          /\ UNCHANGED <<temperature, a2, temperature_history, policy, next_state>>]_vars

\* run continued a trajectory whose state is not in the beam, at a moment
\* when the annealing branch would have restarted the temperature.
C5_Witness ==
    /\ predictor = "MCTS"
    /\ call.op = "run"
    /\ call.branch = "next_state"
    /\ call.state \notin Range(beam)
    /\ Len(beam) > 1
    /\ accepted = 1
    /\ temperature = Zero
    /\ keep_history

\* C6 as stated: TemporalDifference.set_reward_signal leaves the policy
\* store alone for a NaN or infinite reward; otherwise, after the call,
\* every package tuple of state.resolved has its reward_sum raised by the
\* reward and its visit_count by 1, and no other record's values change.
C6_AsStated ==
    [][(predictor = "TD" /\ IsRewardCall(call'))
       => IF ~IsFinite(call'.reward)
          THEN policy' = policy
          ELSE /\ \A pt \in Range(call'.state.resolved) :
                    /\ pt \in Keys(policy')
                    /\ RecordOf(policy', pt) =
                         <<RecordOf(policy, pt)[1] + call'.reward.val,
                           RecordOf(policy, pt)[2] + 1>>
               /\ \A pt \in Keys(policy') \ Range(call'.state.resolved) :
                    RecordOf(policy', pt) = RecordOf(policy, pt)]_vars

\* C6 amended: the same of the policy store as the update loop leaves it;
\* the eviction of the same call, when it is due, may then drop records,
\* and otherwise the store is left as updated.
C6_UpdateBeforeEviction ==
    [][(predictor = "TD" /\ IsRewardCall(call'))
       => IF ~IsFinite(call'.reward)
          THEN policy' = policy
          ELSE /\ \A pt \in Range(call'.state.resolved) :
                    /\ pt \in Keys(updated')
                    /\ RecordOf(updated', pt) =
                         <<RecordOf(policy, pt)[1] + call'.reward.val,
                           RecordOf(policy, pt)[2] + 1>>
               /\ \A pt \in PackageTuples \ Range(call'.state.resolved) :
                    /\ pt \in Keys(updated') <=> pt \in Keys(policy)
                    /\ RecordOf(updated', pt) = RecordOf(policy, pt)
               /\ ~(policySize # 0 /\ iteration % EVICTION_PERIOD = 0)
                    => policy' = updated']_vars

\* A finite reward was credited to two package tuples, one of which the
\* eviction of the same call dropped.
C6_Witness ==
    /\ predictor = "TD"
    /\ IsRewardCall(call)
    /\ call.reward = Finite(1)
    /\ Len(call.state.resolved) = 2
    /\ \E pt \in Range(call.state.resolved) : pt \notin Keys(policy)
    /\ \E pt \in Range(call.state.resolved) : RecordOf(policy, pt)[2] = 2

\* C7 as stated: with a cap POLICY_SIZE > 0 the policy store never holds
\* more than POLICY_SIZE entries.
C7_AsStated == policySize > 0 => Len(policy) <= policySize

\* C7 amended: with a cap POLICY_SIZE > 0 the policy store holds at most
\* POLICY_SIZE entries right after a set_reward_signal call that evicts.
C7_CapAfterEviction == EvictionCall => Len(policy) <= policySize

\* An eviction that had to drop records, under each predictor's cap.
C7_Witness ==
    /\ EvictionCall
    /\ Len(updated) > policySize
    /\ Len(policy) = policySize
    /\ policySize = 2

\* C8: right after an eviction with cap K the policy store holds exactly
\* min(K, previous size) entries, each with its key and (reward_sum,
\* visit_count) unchanged, and no evicted entry is lexicographically
\* greater on (reward_sum, visit_count) than a retained one.
C8_EvictionKeepsTop ==
    EvictionCall =>
        /\ Len(policy) = (IF policySize < Len(updated) THEN policySize ELSE Len(updated))
        /\ Range(policy) \subseteq Range(updated)
        /\ Cardinality(Range(policy)) = Len(policy)
        /\ \A kept \in Range(policy) : \A dropped \in Range(updated) \ Range(policy) :
             ~(kept.rec[1] < dropped.rec[1]
               \/ (kept.rec[1] = dropped.rec[1] /\ kept.rec[2] < dropped.rec[2]))

\* An eviction decided by the visit count: a dropped entry ties a kept one
\* on reward_sum and was inserted before it.
C8_Witness ==
    /\ EvictionCall
    /\ \E i, j \in 1..Len(updated) :
         /\ i < j
         /\ updated[i] \notin Range(policy)
         /\ updated[j] \in Range(policy)
         /\ updated[i].rec[1] = updated[j].rec[1]
         /\ updated[i].rec[2] < updated[j].rec[2]

\* The reward signals with which set_reward_signal reaches its policy
\* update and the eviction after it.
ReachesUpdate(reward) ==
    IF predictor = "TD" THEN IsFinite(reward) ELSE ~IsFinite(reward)

\* C9 as stated: with a non-zero cap, in an iteration that is a multiple of
\* 1024 the predictor evicts the policy store down to the cap whichever
\* reward signal the iteration delivers.
C9_AsStated ==
    (IsRewardCall(call) /\ policySize # 0 /\ iteration % EVICTION_PERIOD = 0)
        => Len(policy) <= policySize

\* C9 amended: with a non-zero cap, in an iteration that is a multiple of
\* 1024, a set_reward_signal call that goes through the policy update (TD:
\* finite reward; MCTS: infinite or NaN reward) evicts the policy store down
\* to the cap, and a call that returns before it (TD: NaN, infinite; MCTS:
\* finite) leaves the store as it is; in any other iteration, and with cap
\* 0, no call shrinks the policy store.
C9_EvictionWhenUpdateReached ==
    [][IF IsRewardCall(call')
       THEN IF policySize # 0 /\ iteration % EVICTION_PERIOD = 0
            THEN IF ReachesUpdate(call'.reward)
                 THEN Len(policy') <= policySize
                 ELSE policy' = policy
            ELSE /\ Len(policy') >= Len(policy)
                 /\ Keys(policy) \subseteq Keys(policy')
       ELSE policy' = policy]_vars

\* A call in iteration 1024 that returned before the update and left the
\* policy store above its cap.
C9_Witness ==
    /\ IsRewardCall(call)
    /\ call.branch # "update"
    /\ iteration = EVICTION_PERIOD
    /\ policySize # 0
    /\ Len(policy) > policySize

\* C10: _do_exploitation returns beam.max(); when a package tuple of its
\* iter_unresolved_dependencies() has a record in the policy store, the
\* package tuple returned is one of those with a record, of maximum
\* reward_sum / visit_count among them.
C10_ExploitationFollowsPolicy ==
    (call.op = "run" /\ call.branch = "exploitation") =>
        /\ call.state = BeamMax(beam)
        /\ LET known == {pt \in Range(call.state.unresolved) : pt \in Keys(policy)}
           IN  known # {} =>
                 /\ call.pt \in known
                 /\ \A pt \in known :
                      RecordOf(policy, pt)[1] * RecordOf(policy, call.pt)[2]
                        <= RecordOf(policy, call.pt)[1] * RecordOf(policy, pt)[2]

(***************************************************************************)
(* C11.  TD cooling restart happens exactly once per run: the first call   *)
(* of the temperature function that sees accepted_final_states_count > 0   *)
(* initialises the slope coefficient a (0.5 * iteration * limit) and sets  *)
(* the temperature to limit; every other call of it leaves a unchanged and *)
(* does not set the temperature to limit.                                  *)
(***************************************************************************)
ComputesTemperature == call'.op = "run" /\ call'.branch # "next_state"

C11_RestartExactlyOnce ==
    [][(predictor = "TD" /\ ComputesTemperature) =>
         IF accepted > 0 /\ ~seen_accepted
         THEN a2' = iteration * limit /\ temperature' = Frac(limit, 1)
         ELSE a2' = a2 /\ temperature' # Frac(limit, 1)]_vars

(***************************************************************************)
(* C12.  Temperature bounds: after every run() call of TD or MCTS the      *)
(* stored temperature satisfies 0 <= temperature <= limit, and it is       *)
(* exactly 0 whenever accepted_final_states_count is 0.                    *)
(***************************************************************************)
C12_TemperatureBounds ==
    call.op = "run" =>
        /\ ~FracLess(temperature, Zero)
        /\ ~FracLess(Frac(limit, 1), temperature)
        /\ accepted = 0 => temperature = Zero

\* A run() that leaves the temperature strictly between the bounds, and one
\* that computes it for a context without accepted final states.
C12_Witness ==
    /\ call.op = "run"
    /\ call.branch # "next_state"
    /\ FracLess(Zero, temperature)
    /\ FracLess(temperature, Frac(limit, 1))

(***************************************************************************)
(* C13.  run() is read-only with respect to search data: every run() call  *)
(* of TD and of MCTS leaves the beam (members, scores, order) and the      *)
(* policy store unchanged; of the predictor's state it may change only the *)
(* temperature, the slope coefficient a and temperature_history.           *)
(***************************************************************************)
C13_RunReadOnly ==
    [][call'.op = "run" =>
         /\ beam' = beam
         /\ policy' = policy
         /\ next_state' = next_state
         /\ <<iteration, limit, accepted>>' = <<iteration, limit, accepted>>]_vars

\* An exploiting run() over a beam of two states with a learnt policy, the
\* temperature just restarted.
C13_Witness ==
    /\ call.op = "run"
    /\ call.branch = "exploitation"
    /\ Len(beam) = 2
    /\ Len(policy) > 0
    /\ temperature = Frac(limit, 1)

(***************************************************************************)
(* C17.  Failure classification in the parent of subprocess_run: when the  *)
(* child was killed for exceeding memory (SIGKILL by the OOM killer) the   *)
(* error_msg handed to print_func is the OOM message; otherwise, when the  *)
(* liveness probe's file exists, it is the CPU-time message; otherwise it  *)
(* is the unknown-error message.                                           *)
(***************************************************************************)
\* The OOM killer ended the child: a SIGKILL that is not the probe's.
OOMKilled == wait_status \in OOMSignals /\ ~kill_file

C17_FailureClassification ==
    \A i \in 1..Len(printed) :
        printed[i].by = "parent" =>
            printed[i].result_dict.error_msg =
                IF OOMKilled THEN OOM_MSG
                ELSE IF kill_file THEN CPU_MSG
                ELSE UNKNOWN_MSG

(***************************************************************************)
(* C15.  Adviser.compute iteration limit: when limit is set, for every     *)
(* value of count (None and count > limit included), compute stops walking *)
(* as soon as the number of visited stacks reaches limit: it scores        *)
(* exactly min(limit, number of stacks the walk can produce) stacks and    *)
(* returns normally.                                                       *)
(***************************************************************************)
Min(x, y) == IF x < y THEN x ELSE y

C15_LimitStopsWalk ==
    ~adviser.limit.none =>
        /\ adviser.pc = "walk" => Len(adviser.scored) < adviser.limit.val
        /\ adviser.pc # "TypeError"
        /\ adviser.pc = "returned" =>
              Len(adviser.scored) =
                  Min(adviser.limit.val, Len(adviser.scored) + Len(adviser.walk))

(***************************************************************************)
(* C16.  Adviser.compute output order: the list of stacks returned is      *)
(* ordered by score descending, the best stack first.                      *)
(***************************************************************************)
C16_BestFirst ==
    adviser.pc = "returned" =>
        \A i, j \in 1..Len(adviser.result) :
            i < j => adviser.result[i] >= adviser.result[j]

(***************************************************************************)
(* C19.  CutPreReleases.run: when the project does not allow pre-releases, *)
(* the step requests the removal of exactly those package tuples among     *)
(* step_context.iter_all_dependencies() whose semantic version has a       *)
(* non-empty prerelease or build component, so that no remaining path      *)
(* contains one; when the project allows pre-releases, the step context is *)
(* left unchanged.                                                         *)
(***************************************************************************)
IsPreRelease(package_tuple) ==
    FromTuple(package_tuple).prerelease # "" \/ FromTuple(package_tuple).build # ""

TuplesOf(ctx) ==
    Range(ctx.direct_dependencies) \cup
    UNION {Range(ctx.paths[i].path) : i \in 1..Len(ctx.paths)}

C19_CutPreReleases ==
    step.pc = "CutPreReleases" =>
        IF step.prereleases_allowed
        THEN step_context = step.input /\ step.removed = <<>>
        ELSE /\ Range(step.removed) = {t \in TuplesOf(step.input) : IsPreRelease(t)}
             /\ \A t \in TuplesOf(step_context) : ~IsPreRelease(t)

\* A direct and a transitive pre-release are cut and a path is left.
C19_Witness ==
    /\ step.pc = "CutPreReleases"
    /\ ~step.prereleases_allowed
    /\ Len(step.removed) = 2
    /\ Len(step.input.paths) = 3
    /\ Len(step_context.paths) = 1

(***************************************************************************)
(* C20.  LimitLatestVersions with limit_latest_versions = n: after run the *)
(* remaining paths are exactly the input paths in which every package      *)
(* tuple is among the n newest versions of its package name (direct and    *)
(* transitive dependencies alike), in their original order and with score  *)
(* 0.0; the direct dependencies are the input's direct dependencies that   *)
(* still occur; when every package name has at most n versions, paths and  *)
(* direct dependencies are unchanged.                                      *)
(***************************************************************************)
\* Fewer than n versions of the package name in ctx are newer than the tuple.
AmongNewest(package_tuple, ctx, n) ==
    Cardinality({t \in TuplesOf(ctx) :
                    /\ t[1] = package_tuple[1]
                    /\ Newer(FromTuple(t), FromTuple(package_tuple))}) < n

C20_LimitLatestVersions ==
    step.pc = "LimitLatestVersions" =>
        LET n == step.limit_latest_versions
            kept == SelectSeq(step.input.paths,
                              LAMBDA p : \A t \in Range(p.path) :
                                             AmongNewest(t, step.input, n))
        IN  /\ step_context.paths = kept
            /\ \A i \in 1..Len(step_context.paths) : step_context.paths[i].score = 0
            /\ step_context.direct_dependencies =
                 SelectSeq(step.input.direct_dependencies,
                           LAMBDA d : \E i \in 1..Len(kept) : d \in Range(kept[i].path))
            /\ (\A name \in Range(StepNames) :
                   Cardinality({t \in TuplesOf(step.input) : t[1] = name}) <= n)
                 => step_context = step.input

\* The test's case: two versions of tensorflow, each over two versions of
\* numpy, cut to the newest of each.
C20_Witness ==
    /\ step.pc = "LimitLatestVersions"
    /\ step.limit_latest_versions = 1
    /\ Len(step.input.paths) = 4
    /\ Len(step.input.direct_dependencies) = 2
    /\ step_context.paths =
         << [score |-> 0,
             path |-> << <<"tensorflow", "2.0.0", "https://thoth-station.ninja/simple">>,
                         <<"numpy", "2.0.0", "https://pypi.org/simple">> >>] >>
    /\ step_context.direct_dependencies =
         << <<"tensorflow", "2.0.0", "https://thoth-station.ninja/simple">> >>
\* C18: whatever the predictor (MCTS continuing a trajectory through
\* next_state included), the candidates, the vetoes and the rejections, the
\* resolver loop never makes more than limit iterations, and it ends: the
\* loop is left and what is returned is the final heap as it then is.
C18_LoopTerminates ==
    /\ [](iteration <= limit)
    /\ [](resolver.pc = "done" => resolver.result = resolver.final_heap)
    /\ <>(resolver.pc = "done")

\* The loop is left after limit iterations of MCTS, the last of which
\* continued a trajectory, with a stack in the final heap and no deadline.
C18_Witness ==
    /\ resolver.pc = "done"
    /\ predictor = "MCTS"
    /\ iteration = limit
    /\ limit = MaxLimit
    /\ next_state # None
    /\ ~resolver.deadline_hit
    /\ resolver.result # <<>>

C21_BackportRemoved ==
    (/\ boot.pc = "returned"
     /\ "importlib-resources" \in boot.input.packages \cup boot.input.dev_packages)
    => /\ "importlib-resources" \notin boot.packages
       /\ "importlib-resources" \notin boot.dev_packages
       /\ boot.packages = boot.input.packages \ {"importlib-resources"}
       /\ boot.dev_packages = boot.input.dev_packages \ {"importlib-resources"}
       /\ boot.stack_info = boot.input.stack_info + 1
       /\ boot.returned = "None"

\* The boot has run on a project that listed the package as a dev
\* dependency only, next to another dev dependency.
C21_Witness ==
    /\ boot.pc = "returned"
    /\ "importlib-resources" \in boot.input.dev_packages
    /\ "importlib-resources" \notin boot.input.packages
    /\ boot.dev_packages # {}
    /\ boot.input.stack_info = 0

(***************************************************************************)
(* C22.  Adviser.compute with count set: after each visited stack the heap *)
(* holds at most count entries and they are the count highest scores among *)
(* the stacks visited so far (all of them while fewer than count were      *)
(* visited), count = 0 included; what compute returns are those stacks.    *)
(***************************************************************************)
TopScores(scores, n) ==
    {x \in Range(scores) : Cardinality({y \in Range(scores) : y > x}) < n}

C22_BoundedHeap ==
    ~adviser.count.none =>
        /\ adviser.pc = "walk" =>
              /\ Len(adviser.computed_stacks_heap) <= adviser.count.val
              /\ Len(adviser.computed_stacks_heap) =
                     Min(adviser.count.val, Len(adviser.scored))
              /\ Range(adviser.computed_stacks_heap) =
                     TopScores(adviser.scored, adviser.count.val)
        /\ adviser.pc = "returned" =>
              /\ Len(adviser.result) = Min(adviser.count.val, Len(adviser.scored))
              /\ Range(adviser.result) = TopScores(adviser.scored, adviser.count.val)

\* Three stacks were visited with count = 2 and no limit, the best one last:
\* the heap dropped the lowest.
C22_Witness ==
    /\ adviser.pc = "walk"
    /\ adviser.limit.none
    /\ adviser.count = Some(2)
    /\ adviser.scored = <<2, 1, 3>>
    /\ Range(adviser.computed_stacks_heap) = {2, 3}

(***************************************************************************)
(* C23.  Adviser.compute leaves nothing behind: at every exit, by return,  *)
(* by break or by an exception, _computed_stacks_heap is empty and         *)
(* _visited is 0, and what a call returns is what a call on a new Adviser  *)
(* returns for the stacks it visited.                                      *)
(***************************************************************************)
RECURSIVE HeapOf(_, _, _)
HeapOf(self_count, scores, heap) ==
    IF scores = <<>> THEN heap
    ELSE HeapOf(self_count, Tail(scores), Pushed(self_count, heap, Head(scores)))

C23_NoStateLeft ==
    /\ adviser.pc \in {"idle", "returned", "TypeError", "WalkError"} =>
          /\ adviser.computed_stacks_heap = <<>>
          /\ adviser.visited = 0
    /\ adviser.pc = "walk" => adviser.visited = Len(adviser.scored)
    /\ adviser.pc = "returned" =>
          adviser.result = Returned(HeapOf(adviser.count, adviser.scored, <<>>))

\* The second call on the same Adviser has returned stacks.
C23_Witness ==
    /\ adviser.pc = "returned"
    /\ adviser.calls = 2
    /\ Len(adviser.result) >= 2

(***************************************************************************)
(* C24.  subprocess_run reports exactly once: however child and parent     *)
(* interleave and however the child ends, once the parent is through,      *)
(* print_func has been called exactly once over both processes; the child  *)
(* calls it only with a computed report, the parent only when the child    *)
(* ended with a non-zero status.                                           *)
(***************************************************************************)
ChildPrintCalls == {i \in 1..Len(printed) : printed[i].by = "child"}
ParentPrintCalls == {i \in 1..Len(printed) : printed[i].by = "parent"}

C24_ReportsOnce ==
    /\ Len(printed) <= 1
    /\ parent.pc \in {"returned", "raised"} => Len(printed) = 1
    /\ \A i \in ChildPrintCalls : printed[i].result_dict.report \in Reports
    /\ ParentPrintCalls # {} => wait_status \notin {NotEnded, 0}

(***************************************************************************)
(* C25.  subprocess_run error propagation: when asa() raises in the child, *)
(* the result handed to print_func has error = True, report = None and an  *)
(* error_msg that carries the text of that exception.                      *)
(***************************************************************************)
\* asa() raised: the child has stored str(exc) and no report was returned.
AsaRaised ==
    /\ child.report = "None"
    /\ child.result_dict.error = "True"
    /\ child.result_dict.error_msg \in Exceptions

C25_ErrorPropagation ==
    AsaRaised =>
        /\ parent.pc \in {"returned", "raised"} => printed # <<>>
        /\ \A i \in 1..Len(printed) :
              /\ printed[i].result_dict.error = "True"
              /\ printed[i].result_dict.report = "None"
              /\ printed[i].result_dict.error_msg = child.result_dict.error_msg

(***************************************************************************)
(* C26.  Probable-state index: in TD.run and in MCTS.run without a pending *)
(* next_state the index j of the probable state satisfies                  *)
(* 0 <= j < beam.size, it is 0 exactly when beam.size <= 1 and lies in     *)
(* 1..beam.size otherwise; with j = 0 run() takes the exploitation branch  *)
(* and returns beam.max(), whatever the temperature and the draw.          *)
(***************************************************************************)
AnnealedRun == call.op = "run" /\ call.branch # "next_state"

C26_ProbableStateIdx ==
    AnnealedRun =>
        /\ 0 <= call.idx /\ call.idx < BeamSize(beam)
        /\ call.idx = 0 <=> BeamSize(beam) <= 1
        /\ BeamSize(beam) > 1 => call.idx \in 1..BeamSize(beam)
        /\ call.idx = 0 =>
              /\ call.branch = "exploitation"
              /\ call.state = BeamMax(beam)

\* MCTS.run at a positive temperature on a beam of one state: j = 0.
C26_Witness ==
    /\ AnnealedRun
    /\ predictor = "MCTS"
    /\ call.idx = 0
    /\ BeamSize(beam) = 1
    /\ temperature # Zero
    /\ call.state = BeamMax(beam)

(***************************************************************************)
(* C27.  No division by zero in the temperature schedule: in a run driven  *)
(* by the resolver loop (iteration incremented before predictor.run,       *)
(* limit >= 1), whenever run() is about to evaluate the linear branch      *)
(* (-limit / a) * iteration + limit, the slope coefficient a is strictly   *)
(* positive.                                                               *)
(***************************************************************************)
\* predictor.run() is the next step of the loop and will compute a temperature.
TemperatureDue ==
    /\ resolver.pc = "run"
    /\ ~expanding
    /\ predictor = "MCTS" => ~ContinuesTrajectory(next_state)

\* Neither of the two early returns of _temperature_function is taken.
LinearBranch == accepted # 0 /\ ~(temperature = Zero /\ accepted = 1)

C27_SlopePositive ==
    /\ (TemperatureDue /\ LinearBranch) =>
          /\ a2 > 0
          /\ TemperatureFunction(temperature, a2, accepted, iteration, limit).t
                 # ZeroDivision
    /\ resolver.pc # "idle" => iteration >= 0 /\ limit >= 1

\* TD is about to evaluate the linear branch in iteration 3 with the slope
\* that iteration 2 set.
C27_Witness ==
    /\ TemperatureDue
    /\ LinearBranch
    /\ predictor = "TD"
    /\ iteration = 3
    /\ a2 = 2 * limit

(***************************************************************************)
(* C28.  The MCTS trajectory state can always be expanded: under the       *)
(* resolver loop, whenever next_state is not None it has an unresolved     *)
(* dependency, so MCTS.run has a dependency to return for it.              *)
(***************************************************************************)
C28_NextStateExpandable ==
    (resolver.pc # "idle" /\ next_state # None) =>
        /\ ~is_terminal(next_state)
        /\ get_random_unresolved_dependency(next_state) # {}

\* MCTS.run has continued the trajectory: it returned next_state, set by the
\* reward of an earlier iteration, with one of its unresolved dependencies.
C28_Witness ==
    /\ resolver.pc = "run"
    /\ predictor = "MCTS"
    /\ call.op = "run"
    /\ call.branch = "next_state"
    /\ call.state = next_state
    /\ call.pt \in get_random_unresolved_dependency(next_state)
    /\ iteration >= 2

(***************************************************************************)
(* C29.  Expanded states come from the beam: under the resolver loop with  *)
(* a bounded beam, every state that TD.run or MCTS.run returns is a member *)
(* of the beam when it is returned, the states returned through next_state *)
(* after beam.add was called for them included.                            *)
(***************************************************************************)
C29_ExpandsBeamMember ==
    (resolver.pc = "run" /\ call.op = "run") =>
        \E i \in 1..BeamSize(beam) : beam[i] = call.state

====
